---- MODULE Spec2Model ----
(***************************************************************************)
(* Model of the DirectML super-resolution Upscaler                          *)
(* (Samples/DirectMLSuperResolution/DirectMLSuperResolution.h).             *)
(*                                                                         *)
(* A GPU object is identified by the generation of the device it was        *)
(* created on: 0 is an empty ComPtr / unique_ptr, g > 0 an object created   *)
(* on device generation g.  A 32-bit word is a pair <<hi, lo>> of 16-bit    *)
(* halves, so that uint32_t arithmetic keeps its width.                     *)
(***************************************************************************)
EXTENDS Integers, Sequences, FiniteSets, Bags, TLC

VARIABLES
    lifecycle,      \* "none" | "built" | "lost" | "failed" | "deleting" | "deleted"
    upscaler,       \* the Upscaler object's members
    deviceGen,      \* generation of the D3D device held by m_deviceResources
    createCall,     \* the arguments CreateUpscaler was called with and what it wrote back
    pc,             \* position inside Upscaler::Render
    renderArgs,     \* the arguments of the Render call in progress
    calls,          \* the arguments of every RenderUpscale call so far, in order
    cmdList,        \* the commands recorded on the command list
    renderOut,      \* the out-parameters of the last Render call
    gpuQueue,       \* command lists submitted to the GPU queue, oldest first
    inputFence,     \* completed value of the caller's input fence
    outputFence,    \* completed value of the output fence
    fenceValue,     \* last value handed out for the output fence
    counters,       \* calls made so far (renders, submits, losses, restores)
    initialState,   \* what CreateDeviceDependentResources built in Initialize
    adapterNhwc,    \* whether the adapter is one the NHWC layout is chosen for
    deleteInfo,     \* how DeleteUpscaler ended
    wpc,            \* position inside Upscaler::CreateWeightTensors
    weights,        \* the WeightMapType: layer name -> sequence of float values
    wargs,          \* the arguments of the CreateWeightTensors call
    wlocal,         \* the local variables of CreateWeightTensors
    wout,           \* what the call wrote for its caller: resources and uploads
    resourceState,  \* the D3D12 resource state of the resources Render transitions
    spc,            \* position in the sequence of GetStrides calls
    sargs,          \* the tensor shapes the weight resources are created for
    slog            \* per shape: the strides written for sizing and for binding

pipelineVars == <<lifecycle, upscaler, deviceGen, createCall, pc, renderArgs, calls, cmdList,
                  renderOut, gpuQueue, inputFence, outputFence, fenceValue, counters,
                  initialState, adapterNhwc, deleteInfo>>

weightVars == <<wpc, weights, wargs, wlocal, wout>>

strideVars == <<spc, sargs, slog>>

vars == <<pipelineVars, weightVars, resourceState, strideVars>>

-----------------------------------------------------------------------------
(* Program constants *)
c_backBufferCount == 8
c_numConvLayers == 7
FORCE_NCHW == 0

\* GetMaxBackBuffers(): the number of frames that may be in flight
GetMaxBackBuffers == c_backBufferCount

(* Bounds of the model *)
MaxFrames == 2
MaxLosses == 2
MaxFence == 2
MaxDim == 2

-----------------------------------------------------------------------------
(* 32-bit arithmetic on <<hi, lo>> words *)
Half == 2^16

Word(hi, lo) == <<hi, lo>>

\* uint32_t x * 2: the low 32 bits of the product
Mul2(x) ==
    LET lo2 == 2 * x[2]
    IN  <<(2 * x[1] + lo2 \div Half) % Half, lo2 % Half>>

\* uint32_t x + k for a small k, wrapping at 2^32
AddWrap(x, k) ==
    LET lo2 == x[2] + k
    IN  <<(x[1] + lo2 \div Half) % Half, lo2 % Half>>

\* uint32_t x / b for b a power of two that divides 2^16 (fits a machine int)
DivPow2(x, b) == x[1] * (Half \div b) + x[2] \div b

\* Divide and round up, in UINT arithmetic
DivUp(a, b) == DivPow2(AddWrap(a, b - 1), b)

\* uint32_t -> LONG: the same 32 bits read as a signed integer
AsLONG(x) ==
    IF x[1] < 32768 THEN x[1] * Half + x[2]
                    ELSE (x[1] - Half) * Half + x[2]

\* two's complement negation of a word
NegWord(x) ==
    <<(Half - 1 - x[1] + (IF x[2] = 0 THEN 1 ELSE 0)) % Half, (Half - x[2]) % Half>>

RECURSIVE BitLen(_)
BitLen(n) == IF n = 0 THEN 0 ELSE 1 + BitLen(n \div 2)

RECURSIVE Pow2(_)
Pow2(k) == IF k = 0 THEN 1 ELSE 2 * Pow2(k - 1)

\* static_cast<FLOAT>(LONG): binary32 keeps 24 significant bits, rounding to
\* nearest, ties to even.  The result is the value (-1)^neg * m * 2^e.
FloatOfLONG(x) ==
    LET neg == x[1] >= 32768
        mag == IF neg THEN NegWord(x) ELSE x
        s   == IF mag[1] < 256 THEN 0 ELSE BitLen(mag[1]) - 8
        m0  == mag[1] * Pow2(16 - s) + mag[2] \div Pow2(s)
        rem == mag[2] % Pow2(s)
        hlf == IF s = 0 THEN 0 ELSE Pow2(s - 1)
        up  == s > 0 /\ (rem > hlf \/ (rem = hlf /\ m0 % 2 = 1))
        m1  == IF up THEN m0 + 1 ELSE m0
    IN  IF m1 = 16777216 THEN [neg |-> neg, m |-> 8388608, e |-> s + 1]
                         ELSE [neg |-> neg, m |-> m1, e |-> s]


-----------------------------------------------------------------------------
(* Products and sums wider than 16 bits: a number is the sequence of its      *)
(* base-256 digits, least significant first                                   *)
Digit == 2^8

DigitsOfWord(x) == <<x[2] % Digit, x[2] \div Digit, x[1] % Digit, x[1] \div Digit>>
WordOfDigits(d) == <<d[4] * Digit + d[3], d[2] * Digit + d[1]>>

DigitAt(d, i) == IF i >= 1 /\ i <= Len(d) THEN d[i] ELSE 0

\* column k of the schoolbook product a * b
RECURSIVE MulColumn(_, _, _, _)
MulColumn(a, b, k, i) ==
    IF i > k \/ i > Len(a) THEN 0
    ELSE a[i] * DigitAt(b, k + 1 - i) + MulColumn(a, b, k, i + 1)

RECURSIVE MulFrom(_, _, _, _, _)
MulFrom(a, b, k, n, carry) ==
    IF k > n THEN <<>>
    ELSE LET t == MulColumn(a, b, k, 1) + carry
         IN  <<t % Digit>> \o MulFrom(a, b, k + 1, n, t \div Digit)

\* the low n digits of a * b, i.e. the product modulo 256^n
MulDigits(a, b, n) == MulFrom(a, b, 1, n, 0)

RECURSIVE AddFrom(_, _, _, _, _)
AddFrom(a, b, k, n, carry) ==
    IF k > n THEN <<>>
    ELSE LET t == DigitAt(a, k) + DigitAt(b, k) + carry
         IN  <<t % Digit>> \o AddFrom(a, b, k + 1, n, t \div Digit)

\* the low n digits of a + b
AddDigits(a, b, n) == AddFrom(a, b, 1, n, 0)

\* the 8 digits of the exact product of two words
MulWords(x, y) ==
    LET a  == DigitsOfWord(x)
        b  == DigitsOfWord(y)
        t1 == a[1] * b[1]
        t2 == a[1] * b[2] + a[2] * b[1] + t1 \div Digit
        t3 == a[1] * b[3] + a[2] * b[2] + a[3] * b[1] + t2 \div Digit
        t4 == a[1] * b[4] + a[2] * b[3] + a[3] * b[2] + a[4] * b[1] + t3 \div Digit
        t5 == a[2] * b[4] + a[3] * b[3] + a[4] * b[2] + t4 \div Digit
        t6 == a[3] * b[4] + a[4] * b[3] + t5 \div Digit
        t7 == a[4] * b[4] + t6 \div Digit
    IN  <<t1 % Digit, t2 % Digit, t3 % Digit, t4 % Digit, t5 % Digit, t6 % Digit,
          t7 % Digit, t7 \div Digit>>

\* uint32_t x * y: the low 32 bits of the product
Mul32(x, y) == WordOfDigits(MulWords(x, y))

\* uint32_t x - 1, wrapping at 0
Sub1(x) ==
    IF x[2] > 0 THEN <<x[1], x[2] - 1>>
    ELSE <<(x[1] + Half - 1) % Half, Half - 1>>

-----------------------------------------------------------------------------
(* The Upscaler object *)

\* an empty ComPtr / unique_ptr, and an object created on device generation g
Null == [gen |-> 0, size |-> <<>>]
New(g) == [gen |-> g, size |-> <<>>]
NewTexture(g, width, height) == [gen |-> g, size |-> <<width, height>>]

NullHandle == [of |-> "NULL", gen |-> 0]
\* what an uninitialized HANDLE member may hold
UninitializedHandles == {NullHandle, [of |-> "uninitialized", gen |-> 0]}
\* ID3D12Device::CreateSharedHandle on the object held by member name
SharedHandle(name, obj) == [of |-> name, gen |-> obj.gen]

Layers == 0 .. (c_numConvLayers - 1)

\* the members that hold one device-dependent object each
ObjectMembers ==
    {"m_SRVDescriptorHeap", "m_RTVDescriptorHeap", "m_tensorRenderRootSignature",
     "m_tensorRenderPipelineState", "m_videoTexture", "m_finalResultTexture",
     "m_vertexBuffer", "m_indexBuffer", "m_computePSO", "m_computeRootSignature",
     "m_dmlDevice", "m_dmlCommandRecorder", "m_dmlDescriptorHeap", "m_modelInput",
     "m_modelOutput", "m_modelPersistentResource", "m_modelTemporaryResource",
     "m_dmlGraph", "m_dmlBindingTable", "m_dmlOpInitializer"}

\* Upscaler::Upscaler(): m_finalResultTextureHandle has no initializer
Upscaler(uninit) ==
    [m_deviceResources           |-> "DeviceResources",
     m_SRVDescriptorHeap         |-> Null,
     m_RTVDescriptorHeap         |-> Null,
     m_VideoTextureHandle        |-> NullHandle,
     m_tensorRenderRootSignature |-> Null,
     m_tensorRenderPipelineState |-> Null,
     m_videoTexture              |-> Null,
     m_finalResultTexture        |-> Null,
     m_finalResultTextureHandle  |-> uninit,
     m_srcTextureHeight          |-> <<0, 0>>,
     m_srcTextureWidth           |-> <<0, 0>>,
     m_vertexBuffer              |-> Null,
     m_indexBuffer               |-> Null,
     m_vertexBufferView          |-> 0,
     m_indexBufferView           |-> 0,
     m_computePSO                |-> Null,
     m_computeRootSignature      |-> Null,
     m_dmlDevice                 |-> Null,
     m_dmlCommandRecorder        |-> Null,
     m_tensorLayout              |-> "Default",
     m_dmlDescriptorHeap         |-> Null,
     m_modelInput                |-> Null,
     m_modelOutput               |-> Null,
     m_modelConvFilterWeights    |-> [i \in Layers |-> Null],
     m_modelConvBiasWeights      |-> [i \in Layers |-> Null],
     m_modelPersistentResource   |-> Null,
     m_modelTemporaryResource    |-> Null,
     m_dmlGraph                  |-> Null,
     m_dmlBindingTable           |-> Null,
     m_dmlOpInitializer          |-> Null]

\* the places where CreateTextureResources can throw (DX::ThrowIfFailed)
TextureSteps ==
    <<"vertexBuffer", "vertexMap", "indexBuffer", "indexMap", "videoTexture",
      "sharedHandle">>
FailPoints == {"none"} \cup {TextureSteps[i] : i \in 1 .. Len(TextureSteps)}

\* one step of CreateTextureResources on device generation g; ok = the call succeeded
TextureStep(u, g, step, ok) ==
    CASE step = "vertexBuffer" ->
            [u EXCEPT !.m_vertexBuffer = IF ok THEN New(g) ELSE Null]
      [] step = "vertexMap" ->
            IF ok THEN [u EXCEPT !.m_vertexBufferView = u.m_vertexBuffer.gen] ELSE u
      [] step = "indexBuffer" ->
            [u EXCEPT !.m_indexBuffer = IF ok THEN New(g) ELSE Null]
      [] step = "indexMap" ->
            IF ok THEN [u EXCEPT !.m_indexBufferView = u.m_indexBuffer.gen] ELSE u
      [] step = "videoTexture" ->
            [u EXCEPT !.m_videoTexture =
                IF ok THEN NewTexture(g, u.m_srcTextureWidth, u.m_srcTextureHeight)
                      ELSE Null]
      [] step = "sharedHandle" ->
            IF ok THEN [u EXCEPT !.m_VideoTextureHandle =
                            SharedHandle("m_videoTexture", u.m_videoTexture)]
                  ELSE u

RECURSIVE RunTextureSteps(_, _, _, _)
RunTextureSteps(u, g, i, failAt) ==
    IF i > Len(TextureSteps) THEN [u |-> u, ok |-> TRUE]
    ELSE IF TextureSteps[i] = failAt
         THEN [u |-> TextureStep(u, g, TextureSteps[i], FALSE), ok |-> FALSE]
         ELSE RunTextureSteps(TextureStep(u, g, TextureSteps[i], TRUE), g, i + 1, failAt)

\* Upscaler::CreateTextureResources: vertex buffer, index buffer, the texture that
\* receives video frames and its shared handle
CreateTextureResources(u, g, failAt) == RunTextureSteps(u, g, 1, failAt)

\* Upscaler::CreateDirectMLResources.  It chooses the tensor layout for the adapter
\* and creates the output texture with its shared handle, the root signatures and
\* pipeline states, the ML device and recorder, the model tensors, the 7 filter
\* and 6 bias buffers (the last layer has no scale/shift) and the compiled graph.
CreateDirectMLResources(u, g, nhwc) ==
    [u EXCEPT
        !.m_tensorLayout = IF FORCE_NCHW = 0 /\ nhwc THEN "NHWC" ELSE "Default",
        !.m_finalResultTexture =
            NewTexture(g, Mul2(u.m_srcTextureWidth), Mul2(u.m_srcTextureHeight)),
        !.m_finalResultTextureHandle =
            SharedHandle("m_finalResultTexture", New(g)),
        !.m_computeRootSignature = New(g),
        !.m_computePSO = New(g),
        !.m_tensorRenderRootSignature = New(g),
        !.m_tensorRenderPipelineState = New(g),
        !.m_dmlDevice = New(g),
        !.m_dmlCommandRecorder = New(g),
        !.m_modelInput = New(g),
        !.m_modelOutput = New(g),
        !.m_modelConvFilterWeights = [i \in Layers |-> New(g)],
        !.m_modelConvBiasWeights =
            [i \in Layers |-> IF i < c_numConvLayers - 1 THEN New(g) ELSE @[i]],
        !.m_dmlGraph = New(g),
        !.m_dmlDescriptorHeap = New(g)]

\* Upscaler::InitializeDirectMLResources: the operator initializer, the scratch
\* buffers and the binding table of the compiled graph
InitializeDirectMLResources(u, g) ==
    [u EXCEPT
        !.m_dmlOpInitializer = New(g),
        !.m_modelTemporaryResource = New(g),
        !.m_modelPersistentResource = New(g),
        !.m_dmlBindingTable = New(g)]

\* Upscaler::CreateDeviceDependentResources
CreateDeviceDependentResources(u, g, nhwc, failAt) ==
    LET heaps == [u EXCEPT !.m_SRVDescriptorHeap = New(g),
                           !.m_RTVDescriptorHeap = New(g)]
        tex   == CreateTextureResources(heaps, g, failAt)
    IN  IF tex.ok
        THEN [u  |-> InitializeDirectMLResources(
                        CreateDirectMLResources(tex.u, g, nhwc), g),
              ok |-> TRUE]
        ELSE tex

\* Initialize with the two out-parameters exchanged
Initialize_SwappedHandles(u, width, height, g, nhwc, failAt) ==
    LET sized == [u EXCEPT !.m_srcTextureWidth = width, !.m_srcTextureHeight = height]
        built == CreateDeviceDependentResources(sized, g, nhwc, failAt)
    IN  [u   |-> built.u,
         ok  |-> built.ok,
         out |-> [pSrcSharedHandle |-> built.u.m_finalResultTextureHandle,
                  pDstSharedHandle |-> built.u.m_VideoTextureHandle]]

\* Upscaler::Initialize(width, height, pSrcSharedHandle, pDstSharedHandle)
Initialize(u, width, height, g, nhwc, failAt) ==
    LET sized == [u EXCEPT !.m_srcTextureWidth = width, !.m_srcTextureHeight = height]
        built == CreateDeviceDependentResources(sized, g, nhwc, failAt)
    IN  [u   |-> built.u,
         ok  |-> built.ok,
         out |-> [pSrcSharedHandle |-> built.u.m_VideoTextureHandle,
                  pDstSharedHandle |-> built.u.m_finalResultTextureHandle]]

\* Upscaler::OnDeviceLost: the members it resets, in its order
OnDeviceLostResets(u) ==
    [u EXCEPT
        !.m_tensorRenderPipelineState = Null,
        !.m_tensorRenderRootSignature = Null,
        !.m_videoTexture = Null,
        !.m_finalResultTexture = Null,
        !.m_indexBuffer = Null,
        !.m_vertexBuffer = Null,
        !.m_SRVDescriptorHeap = Null,
        !.m_RTVDescriptorHeap = Null,
        !.m_computePSO = Null,
        !.m_computeRootSignature = Null,
        !.m_dmlDevice = Null,
        !.m_dmlCommandRecorder = Null,
        !.m_modelInput = Null,
        !.m_modelOutput = Null,
        !.m_dmlOpInitializer = Null,
        !.m_dmlGraph = Null,
        !.m_modelTemporaryResource = Null,
        !.m_modelPersistentResource = Null,
        !.m_modelConvFilterWeights = [i \in Layers |-> Null],
        !.m_modelConvBiasWeights = [i \in Layers |-> Null],
        !.m_dmlDescriptorHeap = Null]

\* the implicit member destruction after ~Upscaler's body
DestroyMembers(u) ==
    [f \in DOMAIN u |->
        IF f \in ObjectMembers THEN Null
        ELSE IF f \in {"m_modelConvFilterWeights", "m_modelConvBiasWeights"}
             THEN [i \in Layers |-> Null]
        ELSE IF f = "m_deviceResources" THEN "destroyed"
        ELSE u[f]]

-----------------------------------------------------------------------------
(* Upscaler::Render: the commands each pass records *)

Ref(u, name) == <<name, u[name].gen>>
Cmd(op, refs, args) == [op |-> op, refs |-> refs, args |-> args]

UAVBarrier == <<"UAV", "nullptr", "", "">>
Transition(name, before, after) == <<"Transition", name, before, after>>

\* ImageLayoutCB { Height, Width, UseNhwc }
ImageLayoutCB(height, width, layout) ==
    [Height |-> height, Width |-> width, UseNhwc |-> (layout = "NHWC")]

\* the image-to-tensor pass without the barrier after its Dispatch
ImageToTensorPass_NoBarrier(u) ==
    <<Cmd("SetDescriptorHeaps", <<Ref(u, "m_SRVDescriptorHeap")>>, <<>>),
      Cmd("SetComputeRootSignature", <<Ref(u, "m_computeRootSignature")>>, <<>>),
      Cmd("SetComputeRoot32BitConstants", <<>>,
          ImageLayoutCB(u.m_srcTextureHeight, u.m_srcTextureWidth, u.m_tensorLayout)),
      Cmd("SetComputeRootDescriptorTable", <<Ref(u, "m_SRVDescriptorHeap")>>,
          <<"e_crpIdxSRV", "e_descTexture">>),
      Cmd("SetComputeRootDescriptorTable", <<Ref(u, "m_SRVDescriptorHeap")>>,
          <<"e_crpIdxUAV", "e_descModelInput">>),
      Cmd("SetPipelineState", <<Ref(u, "m_computePSO")>>, <<>>),
      Cmd("Dispatch", <<>>,
          <<DivUp(u.m_srcTextureWidth, 32), DivUp(u.m_srcTextureHeight, 16), 1>>)>>

\* Convert image to tensor format (original texture -> model input)
ImageToTensorPass(u) ==
    <<Cmd("SetDescriptorHeaps", <<Ref(u, "m_SRVDescriptorHeap")>>, <<>>),
      Cmd("SetComputeRootSignature", <<Ref(u, "m_computeRootSignature")>>, <<>>),
      Cmd("SetComputeRoot32BitConstants", <<>>,
          ImageLayoutCB(u.m_srcTextureHeight, u.m_srcTextureWidth, u.m_tensorLayout)),
      Cmd("SetComputeRootDescriptorTable", <<Ref(u, "m_SRVDescriptorHeap")>>,
          <<"e_crpIdxSRV", "e_descTexture">>),
      Cmd("SetComputeRootDescriptorTable", <<Ref(u, "m_SRVDescriptorHeap")>>,
          <<"e_crpIdxUAV", "e_descModelInput">>),
      Cmd("SetPipelineState", <<Ref(u, "m_computePSO")>>, <<>>),
      Cmd("Dispatch", <<>>,
          <<DivUp(u.m_srcTextureWidth, 32), DivUp(u.m_srcTextureHeight, 16), 1>>),
      Cmd("ResourceBarrier", <<>>, <<UAVBarrier>>)>>

\* Run the DirectML operations (model input -> model output)
DirectMLPass(u) ==
    <<Cmd("SetDescriptorHeaps", <<Ref(u, "m_dmlDescriptorHeap")>>, <<>>),
      Cmd("RecordDispatch",
          <<Ref(u, "m_dmlCommandRecorder"), Ref(u, "m_dmlGraph"),
            Ref(u, "m_dmlBindingTable")>>, <<>>)>>

\* the width left unscaled
ScaledWidth_Unscaled(u) == u.m_srcTextureWidth

\* m_srcTextureWidth * 2 and m_srcTextureHeight * 2, in uint32_t
ScaledWidth(u) == Mul2(u.m_srcTextureWidth)
ScaledHeight(u) == Mul2(u.m_srcTextureHeight)

\* Render the DML result to a texture
TensorToImagePass(u) ==
    LET right  == ScaledWidth(u)      \* texScissor.right, a LONG
        bottom == ScaledHeight(u)     \* texScissor.bottom, a LONG
    IN
    <<Cmd("ResourceBarrier", <<Ref(u, "m_finalResultTexture"), Ref(u, "m_modelOutput")>>,
          <<Transition("m_finalResultTexture", "PIXEL_SHADER_RESOURCE", "RENDER_TARGET"),
            Transition("m_modelOutput", "UNORDERED_ACCESS", "PIXEL_SHADER_RESOURCE"),
            UAVBarrier>>),
      Cmd("OMSetRenderTargets", <<Ref(u, "m_RTVDescriptorHeap")>>,
          <<"e_descFinalResultTextureRtv">>),
      Cmd("ClearRenderTargetView", <<Ref(u, "m_RTVDescriptorHeap")>>,
          <<"e_descFinalResultTextureRtv", "Colors::Black">>),
      Cmd("RSSetViewports", <<>>,
          [Width |-> FloatOfLONG(right), Height |-> FloatOfLONG(bottom)]),
      Cmd("RSSetScissorRects", <<>>,
          [right |-> AsLONG(right), bottom |-> AsLONG(bottom)]),
      Cmd("SetGraphicsRootSignature", <<Ref(u, "m_tensorRenderRootSignature")>>, <<>>),
      Cmd("SetPipelineState", <<Ref(u, "m_tensorRenderPipelineState")>>, <<>>),
      Cmd("SetDescriptorHeaps", <<Ref(u, "m_SRVDescriptorHeap")>>, <<>>),
      Cmd("SetGraphicsRoot32BitConstants", <<>>,
          ImageLayoutCB(ScaledHeight(u), ScaledWidth(u), u.m_tensorLayout)),
      Cmd("SetGraphicsRootDescriptorTable", <<Ref(u, "m_SRVDescriptorHeap")>>,
          <<"e_rrpIdxSRV", "e_descModelOutput">>),
      Cmd("IASetPrimitiveTopology", <<>>, <<"TRIANGLELIST">>),
      Cmd("IASetVertexBuffers", <<<<"m_vertexBuffer", u.m_vertexBufferView>>>>, <<>>),
      Cmd("IASetIndexBuffer", <<<<"m_indexBuffer", u.m_indexBufferView>>>>, <<>>),
      Cmd("DrawIndexedInstanced", <<>>, <<6, 1, 0, 0, 0>>)>>

\* the state CreateDirectMLResources creates the output texture and the model
\* output tensor in: the one the first barriers of Render declare
ResourceStatesOf(u) ==
    [m_finalResultTexture |->
        IF u.m_finalResultTexture.gen = 0 THEN "none" ELSE "PIXEL_SHADER_RESOURCE",
     m_modelOutput |->
        IF u.m_modelOutput.gen = 0 THEN "none" ELSE "UNORDERED_ACCESS"]

\* ResourceBarrier(barriers): a transition barrier leaves its resource in the
\* after-state it names
RECURSIVE ApplyBarriers(_, _, _)
ApplyBarriers(st, barriers, i) ==
    IF i > Len(barriers) THEN st
    ELSE ApplyBarriers(
            IF barriers[i][1] = "Transition"
            THEN [st EXCEPT ![barriers[i][2]] = barriers[i][4]]
            ELSE st,
            barriers, i + 1)

\* the resource states after the commands cmds, in recorded order
RECURSIVE ApplyCommands(_, _, _)
ApplyCommands(st, cmds, i) ==
    IF i > Len(cmds) THEN st
    ELSE ApplyCommands(
            IF cmds[i].op = "ResourceBarrier" THEN ApplyBarriers(st, cmds[i].args, 1)
            ELSE st,
            cmds, i + 1)

\* a submission that waits for nothing
SubmitArgs_NoWait(a) == [fence |-> a.inputWaitFence, value |-> 0]

\* the wait condition Render hands to SubmitWork
SubmitArgs(a) == [fence |-> a.inputWaitFence, value |-> a.inputWaitFenceValue]

-----------------------------------------------------------------------------
(* Upscaler::CreateWeightTensors *)

\* Float16Compressor::compress of a float that holds the integer x: the 16 bits of
\* the IEEE-754 half nearest to x (ties to even), infinity from 65520 on
Compress(x) ==
    LET neg  == x < 0
        a    == IF neg THEN 0 - x ELSE x
        e    == BitLen(a) - 1
        s    == IF e > 10 THEN e - 10 ELSE 0
        m0   == IF e > 10 THEN a \div Pow2(s) ELSE a * Pow2(10 - e)
        rem  == IF e > 10 THEN a % Pow2(s) ELSE 0
        hlf  == IF s = 0 THEN 0 ELSE Pow2(s - 1)
        up   == s > 0 /\ (rem > hlf \/ (rem = hlf /\ m0 % 2 = 1))
        m1   == IF up THEN m0 + 1 ELSE m0
        e1   == IF m1 = 2048 THEN e + 1 ELSE e
        m2   == IF m1 = 2048 THEN 1024 ELSE m1
        sign == IF neg THEN 32768 ELSE 0
    IN  IF a = 0 THEN 0
        ELSE IF e1 > 15 THEN sign + 31744
        ELSE sign + (e1 + 15) * 1024 + (m2 - 1024)

\* WeightMapType::operator[]: the value stored under name; a name that is no key
\* is inserted with an empty sequence
MapLookup(wm, name) == IF name \in DOMAIN wm THEN wm[name] ELSE <<>>
MapAfterLookup(wm, name) ==
    [k \in DOMAIN wm \cup {name} |-> IF k \in DOMAIN wm THEN wm[k] ELSE <<>>]

\* std::vector<float>::operator[] at a 0-based index: reading past the end is
\* undefined, and yields whatever the read finds
VectorAt(v, idx, garbage) == IF idx < Len(v) THEN v[idx + 1] ELSE garbage

\* strides that do not depend on the layout
GetStrides_IgnoreLayout(sizes, layout) ==
    <<Mul32(Mul32(sizes[2], sizes[3]), sizes[4]), Mul32(sizes[3], sizes[4]), sizes[4],
      Word(0, 1)>>

\* NHWC strides with those of the height and width axes exchanged
GetStrides_SwappedAxes(sizes, layout) ==
    IF layout = "NHWC"
    THEN <<Mul32(Mul32(sizes[2], sizes[3]), sizes[4]), Word(0, 1), sizes[2],
           Mul32(sizes[2], sizes[4])>>
    ELSE <<Mul32(Mul32(sizes[2], sizes[3]), sizes[4]), Mul32(sizes[3], sizes[4]),
           sizes[4], Word(0, 1)>>

\* Upscaler::GetStrides(sizes, layout, stridesOut): sizes and strides are uint32_t,
\* sizes = (N, C, H, W) at the 1-based positions 1..4
GetStrides(sizes, layout) ==
    IF layout = "NHWC"
    THEN <<Mul32(Mul32(sizes[2], sizes[3]), sizes[4]),
           Word(0, 1),
           Mul32(sizes[2], sizes[4]),
           sizes[2]>>
    ELSE <<Mul32(Mul32(sizes[2], sizes[3]), sizes[4]),
           Mul32(sizes[3], sizes[4]),
           sizes[4],
           Word(0, 1)>>

\* the number of elements spanned by (sizes, strides): one more than the index of
\* the last element, as digits of an exact natural number (below 2^66)
RECURSIVE LastIndex(_, _, _)
LastIndex(sizes, strides, i) ==
    IF i > 4 THEN <<0>>
    ELSE AddDigits(MulWords(Sub1(sizes[i]), strides[i]),
                   LastIndex(sizes, strides, i + 1), 9)

ElementCount(sizes, strides) == AddDigits(LastIndex(sizes, strides, 1), <<1>>, 9)

\* DMLCalcBufferTensorSize(DML_TENSOR_DATA_TYPE_FLOAT16, 4, sizes, strides): the
\* bytes of the spanned elements, 2 each, rounded up to a multiple of 4, a uint64_t
DMLCalcBufferTensorSize(sizes, strides) ==
    LET bytes == AddDigits(MulDigits(ElementCount(sizes, strides), <<2>>, 8), <<3>>, 8)
    IN  [bytes EXCEPT ![1] = @ - (@ % 4)]

\* the words of a shape given in small numbers
SizesOf(shape) == [i \in 1 .. Len(shape) |-> Word(shape[i] \div Half, shape[i] % Half)]

\* Upscaler::CreateWeightResource(tensorSizes, d3dResourceOut)
CreateWeightResource(tensorSizes, layout, g) ==
    LET strides    == GetStrides(tensorSizes, layout)
        bufferSize == DMLCalcBufferTensorSize(tensorSizes, strides)
    IN  [gen |-> g, size |-> tensorSizes, bufferSize |-> bufferSize]

\* the filter weight left as it is
ScaledWeight_Unscaled(useScaleShift, filterWeight, scaleWeight) == filterWeight

\* useScaleShift ? filterWeights[idx] * scaleWeights[n] : filterWeights[idx]
ScaledWeight(useScaleShift, filterWeight, scaleWeight) ==
    IF useScaleShift THEN filterWeight * scaleWeight ELSE filterWeight

\* the index with height and width exchanged
NhwcIndex_Transposed(n, c, h, w, C, H, W) == h + w * H + c * H * W + n * C * H * W

\* idx = w + h * W + c * H*W + n * C*H*W
NhwcIndex(n, c, h, w, C, H, W) == w + h * W + c * H * W + n * C * H * W

\* idx = n * C*H*W + i
DefaultIndex(n, i, C, H, W) == n * C * H * W + i

\* filterWeightsFP16.push_back(Float16Compressor::compress(scaledWeight))
PushScaled(x, n, idx, acc) ==
    Append(acc, Compress(ScaledWeight(x.useScaleShift,
                                      VectorAt(x.filterWeights, idx, x.garbage),
                                      VectorAt(x.scaleWeights, n, x.garbage))))

\* case TensorLayout::NHWC: for h, for w, for c
RECURSIVE LoopC(_, _, _, _, _, _)
LoopC(x, n, h, w, c, acc) ==
    IF c < x.C
    THEN LoopC(x, n, h, w, c + 1,
               PushScaled(x, n, NhwcIndex(n, c, h, w, x.C, x.H, x.W), acc))
    ELSE acc

RECURSIVE LoopW(_, _, _, _, _)
LoopW(x, n, h, w, acc) ==
    IF w < x.W THEN LoopW(x, n, h, w + 1, LoopC(x, n, h, w, 0, acc)) ELSE acc

RECURSIVE LoopH(_, _, _, _)
LoopH(x, n, h, acc) ==
    IF h < x.H THEN LoopH(x, n, h + 1, LoopW(x, n, h, 0, acc)) ELSE acc

\* default: for i < C*H*W
RECURSIVE LoopI(_, _, _, _)
LoopI(x, n, i, acc) ==
    IF i < x.C * x.H * x.W
    THEN LoopI(x, n, i + 1, PushScaled(x, n, DefaultIndex(n, i, x.C, x.H, x.W), acc))
    ELSE acc

\* switch (m_tensorLayout) in the body of the loop over n
EmitFilterRow(layout, x, n, acc) ==
    IF layout = "NHWC" THEN LoopH(x, n, 0, acc) ELSE LoopI(x, n, 0, acc)

\* iteration n of the loop reads past the end of one of the weight vectors
ReadsPastEnd(x, n) ==
    \/ (n + 1) * x.C * x.H * x.W > Len(x.filterWeights)
    \/ x.useScaleShift /\ (n >= Len(x.scaleWeights) \/ n >= Len(x.shiftWeights))

\* CreateWeightTensors before it is called
EmptyMap == [k \in {} |-> <<>>]
NoWeightArgs ==
    [convLayerName |-> "nullptr", scaleLayerName |-> "nullptr",
     shiftLayerName |-> "nullptr", filterSizes |-> <<1, 1, 1, 1>>,
     biasWeightResourceOut |-> "nullptr"]
NoLocals ==
    [useScaleShift |-> FALSE, biasWeightResourceOut |-> "nullptr",
     filterWeights |-> <<>>, scaleWeights |-> <<>>, shiftWeights |-> <<>>,
     filterWeightsFP16 |-> <<>>, biasWeightsFP16 |-> <<>>, n |-> 0]
NoStrideArgs == [shapes |-> <<>>, axis |-> 0]
NoResourceStates == [m_finalResultTexture |-> "none", m_modelOutput |-> "none"]

NoWeightOut ==
    [filterWeightResource |-> Null, biasWeightResource |-> Null, uploads |-> <<>>]

-----------------------------------------------------------------------------
(* The pipeline as a state machine *)

\* the (width, height) pairs CreateUpscaler is called with, as 32-bit words
SrcDims ==
    {<<Word(0, 64), Word(0, 48)>>,            \* 64 x 48
     <<Word(128, 0), Word(0, 1)>>,            \* 2^23 x 1
     <<Word(256, 1), Word(0, 64)>>,           \* (2^24 + 1) x 64
     <<Word(16384, 0), Word(0, 64)>>,         \* 2^30 x 64
     <<Word(0, 64), Word(32768, 0)>>,         \* 64 x 2^31
     <<Word(65535, 65535), Word(65535, 65535)>>}   \* (int) -1 x -1

NoArgs == [inputWaitFence |-> "none", inputWaitFenceValue |-> 0]
NoOut == [outputWaitFence |-> "none", outputWaitFenceValue |-> 0]
NoCall == [src_width |-> <<0, 0>>, src_height |-> <<0, 0>>,
           pSrcSharedResource |-> NullHandle, pDstSharedResource |-> NullHandle]

\* what a build leaves behind, apart from the identity of the objects
Shape(u) ==
    [objects |-> [f \in ObjectMembers |-> [built |-> u[f].gen # 0, size |-> u[f].size]],
     filters |-> [i \in Layers |-> u.m_modelConvFilterWeights[i].gen # 0],
     biases  |-> [i \in Layers |-> u.m_modelConvBiasWeights[i].gen # 0],
     views   |-> <<u.m_vertexBufferView # 0, u.m_indexBufferView # 0>>,
     layout  |-> u.m_tensorLayout,
     source  |-> <<u.m_srcTextureWidth, u.m_srcTextureHeight>>]

Init ==
    /\ lifecycle = "none"
    /\ upscaler = Upscaler(NullHandle)
    /\ deviceGen = 0
    /\ createCall = NoCall
    /\ pc = "idle"
    /\ renderArgs = NoArgs
    /\ calls = <<>>
    /\ cmdList = <<>>
    /\ renderOut = NoOut
    /\ gpuQueue = <<>>
    /\ inputFence = 0
    /\ outputFence = 0
    /\ fenceValue = 0
    /\ counters = [renders |-> 0, submits |-> 0, losses |-> 0, restores |-> 0]
    /\ initialState = Shape(Upscaler(NullHandle))
    /\ adapterNhwc \in BOOLEAN
    /\ deleteInfo = [destructorRan |-> FALSE, waitedForGpu |-> FALSE, pending |-> 0]
    /\ wpc = "idle"
    /\ weights = EmptyMap
    /\ wargs = NoWeightArgs
    /\ wlocal = NoLocals
    /\ wout = NoWeightOut
    /\ resourceState = NoResourceStates
    /\ spc = "idle"
    /\ sargs = NoStrideArgs
    /\ slog = <<>>

\* CreateUpscaler(src_width, src_height, pUPScaler, pSrcSharedResource, pDstSharedResource)
CreateUpscaler ==
    /\ lifecycle = "none"
    /\ \E dims \in SrcDims, uninit \in UninitializedHandles, failAt \in FailPoints :
          LET r == Initialize(Upscaler(uninit), dims[1], dims[2], 1, adapterNhwc, failAt)
          IN  /\ upscaler' = r.u
              /\ lifecycle' = IF r.ok THEN "built" ELSE "failed"
              /\ createCall' =
                    [src_width |-> dims[1], src_height |-> dims[2],
                     pSrcSharedResource |->
                        IF r.ok THEN r.out.pSrcSharedHandle ELSE NullHandle,
                     pDstSharedResource |->
                        IF r.ok THEN r.out.pDstSharedHandle ELSE NullHandle]
              /\ initialState' = IF r.ok THEN Shape(r.u) ELSE initialState
              /\ resourceState' = ResourceStatesOf(r.u)
    /\ deviceGen' = 1
    /\ UNCHANGED <<pc, renderArgs, calls, cmdList, renderOut, gpuQueue, inputFence, outputFence,
                   fenceValue, counters, adapterNhwc, deleteInfo>>
    /\ UNCHANGED <<weightVars, strideVars>>

\* RenderUpscale(pUPScaler, inputWaitFence, inputWaitFenceValue, ...) entering
\* Upscaler::Render: m_deviceResources->Prepare() resets the command list
RenderUpscale ==
    /\ lifecycle = "built"
    /\ pc = "idle"
    /\ counters.renders < MaxFrames
    /\ \E v \in 1 .. MaxFence :
          LET a == [inputWaitFence |-> "inputFence", inputWaitFenceValue |-> v]
          IN  renderArgs' = a /\ calls' = Append(calls, a)
    /\ cmdList' = <<>>
    /\ pc' = "imageToTensor"
    /\ counters' = [counters EXCEPT !.renders = @ + 1]
    /\ UNCHANGED <<lifecycle, upscaler, deviceGen, createCall, renderOut, gpuQueue,
                   inputFence, outputFence, fenceValue, initialState, adapterNhwc,
                   deleteInfo>>
    /\ UNCHANGED <<weightVars, strideVars>>
    /\ UNCHANGED resourceState

RenderImageToTensor ==
    /\ pc = "imageToTensor"
    /\ cmdList' = cmdList \o ImageToTensorPass(upscaler)
    /\ pc' = "directML"
    /\ UNCHANGED <<lifecycle, upscaler, deviceGen, createCall, renderArgs, calls, renderOut,
                   gpuQueue, inputFence, outputFence, fenceValue, counters, initialState,
                   adapterNhwc, deleteInfo>>
    /\ UNCHANGED <<weightVars, strideVars>>
    /\ UNCHANGED resourceState

RenderDirectML ==
    /\ pc = "directML"
    /\ cmdList' = cmdList \o DirectMLPass(upscaler)
    /\ pc' = "tensorToImage"
    /\ UNCHANGED <<lifecycle, upscaler, deviceGen, createCall, renderArgs, calls, renderOut,
                   gpuQueue, inputFence, outputFence, fenceValue, counters, initialState,
                   adapterNhwc, deleteInfo>>
    /\ UNCHANGED <<weightVars, strideVars>>
    /\ UNCHANGED resourceState

RenderTensorToImage ==
    /\ pc = "tensorToImage"
    /\ cmdList' = cmdList \o TensorToImagePass(upscaler)
    /\ resourceState' = ApplyCommands(resourceState, TensorToImagePass(upscaler), 1)
    /\ pc' = "submit"
    /\ UNCHANGED <<lifecycle, upscaler, deviceGen, createCall, renderArgs, calls, renderOut,
                   gpuQueue, inputFence, outputFence, fenceValue, counters, initialState,
                   adapterNhwc, deleteInfo>>
    /\ UNCHANGED <<weightVars, strideVars>>

\* DeviceResources::SubmitWork(inputWaitFence, inputWaitFenceValue, out, out): the
\* queue waits for the input fence, executes the list and signals the output fence
SubmitWork(wait) ==
    /\ gpuQueue' = Append(gpuQueue,
            [frame       |-> counters.renders,
             cmds        |-> cmdList,
             waitFence   |-> wait.fence,
             waitValue   |-> wait.value,
             signalValue |-> fenceValue + 1,
             status      |-> "queued"])
    /\ fenceValue' = fenceValue + 1
    /\ renderOut' = [outputWaitFence |-> "outputFence",
                     outputWaitFenceValue |-> fenceValue + 1]
    /\ counters' = [counters EXCEPT !.submits = @ + 1]

RenderSubmit ==
    /\ pc = "submit"
    /\ SubmitWork(SubmitArgs(renderArgs))
    /\ pc' = "idle"
    /\ UNCHANGED <<lifecycle, upscaler, deviceGen, createCall, renderArgs, calls, cmdList,
                   inputFence, outputFence, initialState, adapterNhwc, deleteInfo>>
    /\ UNCHANGED <<weightVars, strideVars>>
    /\ UNCHANGED resourceState

\* the GPU queue starts the oldest command list not yet started, once the fence it
\* waits for has reached the value it waits for
GpuBegin ==
    /\ \E i \in 1 .. Len(gpuQueue) :
          /\ gpuQueue[i].status = "queued"
          /\ \A j \in 1 .. (i - 1) : gpuQueue[j].status = "done"
          /\ inputFence >= gpuQueue[i].waitValue
          /\ gpuQueue' = [gpuQueue EXCEPT ![i].status = "running"]
    /\ UNCHANGED <<lifecycle, upscaler, deviceGen, createCall, pc, renderArgs, calls,
                   cmdList, renderOut, inputFence, outputFence, fenceValue, counters,
                   initialState, adapterNhwc, deleteInfo>>
    /\ UNCHANGED <<weightVars, strideVars>>
    /\ UNCHANGED resourceState

\* the GPU finishes the running command list and signals the output fence
GpuComplete ==
    /\ \E i \in 1 .. Len(gpuQueue) :
          /\ gpuQueue[i].status = "running"
          /\ gpuQueue' = [gpuQueue EXCEPT ![i].status = "done"]
          /\ outputFence' = gpuQueue[i].signalValue
    /\ UNCHANGED <<lifecycle, upscaler, deviceGen, createCall, pc, renderArgs, calls,
                   cmdList, renderOut, inputFence, fenceValue, counters, initialState,
                   adapterNhwc, deleteInfo>>
    /\ UNCHANGED <<weightVars, strideVars>>
    /\ UNCHANGED resourceState

\* the external producer signals the input fence
ProducerSignal ==
    /\ inputFence < MaxFence
    /\ inputFence' = inputFence + 1
    /\ UNCHANGED <<lifecycle, upscaler, deviceGen, createCall, pc, renderArgs, calls,
                   cmdList, renderOut, gpuQueue, outputFence, fenceValue, counters,
                   initialState, adapterNhwc, deleteInfo>>
    /\ UNCHANGED <<weightVars, strideVars>>
    /\ UNCHANGED resourceState

\* IDeviceNotify::OnDeviceLost, called by DeviceResources when the device is removed:
\* the work in flight is gone with the device, and a new device replaces it
OnDeviceLost ==
    /\ lifecycle = "built"
    /\ pc = "idle"
    /\ counters.losses < MaxLosses
    /\ upscaler' = OnDeviceLostResets(upscaler)
    /\ resourceState' = ResourceStatesOf(OnDeviceLostResets(upscaler))
    /\ lifecycle' = "lost"
    /\ gpuQueue' = <<>>
    /\ deviceGen' = deviceGen + 1
    /\ counters' = [counters EXCEPT !.losses = @ + 1]
    /\ UNCHANGED <<createCall, pc, renderArgs, calls, cmdList, renderOut, inputFence,
                   outputFence, fenceValue, initialState, adapterNhwc, deleteInfo>>
    /\ UNCHANGED <<weightVars, strideVars>>

\* a restore that rebuilds nothing
OnDeviceRestored_NoRebuild ==
    /\ lifecycle = "lost"
    /\ lifecycle' = "built"
    /\ counters' = [counters EXCEPT !.restores = @ + 1]
    /\ UNCHANGED <<upscaler, deviceGen, createCall, pc, renderArgs, calls, cmdList,
                   renderOut, gpuQueue, inputFence, outputFence, fenceValue,
                   initialState, adapterNhwc, deleteInfo>>
    /\ UNCHANGED <<weightVars, strideVars>>
    /\ UNCHANGED resourceState

\* IDeviceNotify::OnDeviceRestored
OnDeviceRestored ==
    /\ lifecycle = "lost"
    /\ \E failAt \in FailPoints :
          LET r == CreateDeviceDependentResources(upscaler, deviceGen, adapterNhwc, failAt)
          IN  /\ upscaler' = r.u
              /\ lifecycle' = IF r.ok THEN "built" ELSE "failed"
              /\ resourceState' = ResourceStatesOf(r.u)
    /\ counters' = [counters EXCEPT !.restores = @ + 1]
    /\ UNCHANGED <<deviceGen, createCall, pc, renderArgs, calls, cmdList, renderOut,
                   gpuQueue, inputFence, outputFence, fenceValue, initialState,
                   adapterNhwc, deleteInfo>>
    /\ UNCHANGED <<weightVars, strideVars>>

Pending(q) == Cardinality({i \in 1 .. Len(q) : q[i].status # "done"})

\* what `delete pUPScaler` on a void* may do: deleting through a void* is undefined;
\* the storage is freed and ~Upscaler may or may not be called
DeleteOutcomes == {"destructor", "no destructor"}

\* DeleteUpscaler(pUPScaler)
DeleteUpscaler ==
    /\ lifecycle \in {"built", "lost"}
    /\ pc = "idle"
    /\ \E outcome \in DeleteOutcomes :
          IF outcome = "destructor"
          THEN /\ lifecycle' = "deleting"
               /\ deleteInfo' = [deleteInfo EXCEPT !.destructorRan = TRUE]
          ELSE /\ lifecycle' = "deleted"
               /\ deleteInfo' = [destructorRan |-> FALSE, waitedForGpu |-> FALSE,
                                 pending |-> Pending(gpuQueue)]
    /\ UNCHANGED <<upscaler, deviceGen, createCall, pc, renderArgs, calls, cmdList,
                   renderOut, gpuQueue, inputFence, outputFence, fenceValue, counters,
                   initialState, adapterNhwc>>
    /\ UNCHANGED <<weightVars, strideVars>>
    /\ UNCHANGED resourceState

\* Upscaler::~Upscaler: m_deviceResources->WaitForGpu() returns once the queue has
\* drained; the members are destroyed after it
Destructor ==
    /\ lifecycle = "deleting"
    /\ Pending(gpuQueue) = 0
    /\ upscaler' = DestroyMembers(upscaler)
    /\ lifecycle' = "deleted"
    /\ deleteInfo' = [destructorRan |-> TRUE, waitedForGpu |-> TRUE,
                      pending |-> Pending(gpuQueue)]
    /\ UNCHANGED <<deviceGen, createCall, pc, renderArgs, calls, cmdList, renderOut,
                   gpuQueue, inputFence, outputFence, fenceValue, counters,
                   initialState, adapterNhwc>>
    /\ UNCHANGED <<weightVars, strideVars>>
    /\ UNCHANGED resourceState

Next ==
    \/ CreateUpscaler
    \/ RenderUpscale
    \/ RenderImageToTensor
    \/ RenderDirectML
    \/ RenderTensorToImage
    \/ RenderSubmit
    \/ GpuBegin
    \/ GpuComplete
    \/ ProducerSignal
    \/ OnDeviceLost
    \/ OnDeviceRestored
    \/ DeleteUpscaler
    \/ Destructor

Spec == Init /\ [][Next]_vars

-----------------------------------------------------------------------------
(* CreateWeightTensors as a state machine *)

Shapes == (1 .. MaxDim) \X (1 .. MaxDim) \X (1 .. MaxDim) \X (1 .. MaxDim)
ScaleBases == {0 - 2, 1}
\* what a read past the end of a vector may find
GarbageValues == {0, 77}

ConvName == "conv1/weights"
ScaleName == "conv1/BatchNorm/scale"
ShiftName == "conv1/BatchNorm/shift"
AbsentName == "conv9/weights"

\* a loaded weight file with the layers of one convolution of shape sizes
WeightSet(sizes, scaleBase) ==
    [k \in {ConvName, ScaleName, ShiftName} |->
        IF k = ConvName
        THEN [i \in 1 .. sizes[1] * sizes[2] * sizes[3] * sizes[4] |-> 100 * i + 1]
        ELSE IF k = ScaleName
        THEN [n \in 1 .. sizes[1] |-> scaleBase + n]
        ELSE [n \in 1 .. sizes[1] |-> 10 * n - 15]]

\* the (scale, shift, bias out-parameter) triples a caller passes
ScaleShiftArgs ==
    {<<"nullptr", "nullptr", "caller">>, <<"nullptr", "nullptr", "nullptr">>,
     <<ScaleName, ShiftName, "caller">>, <<AbsentName, ShiftName, "caller">>,
     <<ScaleName, AbsentName, "caller">>}

WeightsInit ==
    /\ lifecycle = "built"
    /\ \E layout \in {"Default", "NHWC"} :
          upscaler = [Upscaler(NullHandle) EXCEPT !.m_tensorLayout = layout]
    /\ deviceGen = 1
    /\ createCall = NoCall
    /\ pc = "idle"
    /\ renderArgs = NoArgs
    /\ calls = <<>>
    /\ cmdList = <<>>
    /\ renderOut = NoOut
    /\ gpuQueue = <<>>
    /\ inputFence = 0
    /\ outputFence = 0
    /\ fenceValue = 0
    /\ counters = [renders |-> 0, submits |-> 0, losses |-> 0, restores |-> 0]
    /\ initialState = Shape(Upscaler(NullHandle))
    /\ adapterNhwc = (upscaler.m_tensorLayout = "NHWC")
    /\ deleteInfo = [destructorRan |-> FALSE, waitedForGpu |-> FALSE, pending |-> 0]
    /\ wpc = "call"
    /\ \E sizes \in Shapes, scaleBase \in ScaleBases, conv \in {ConvName, AbsentName},
          ss \in ScaleShiftArgs :
          /\ weights = WeightSet(sizes, scaleBase)
          /\ wargs = [convLayerName |-> conv, scaleLayerName |-> ss[1],
                      shiftLayerName |-> ss[2], filterSizes |-> sizes,
                      biasWeightResourceOut |-> ss[3]]
    /\ wlocal = NoLocals
    /\ wout = NoWeightOut
    /\ resourceState = NoResourceStates
    /\ spc = "idle"
    /\ sargs = NoStrideArgs
    /\ slog = <<>>

\* CreateWeightTensors up to the loop: useScaleShift, the weight resources, and the
\* copies of the layers looked up in the map
CreateWeightTensorsBegin ==
    /\ wpc = "call"
    /\ LET useScaleShift == wargs.scaleLayerName # "nullptr"
           N  == wargs.filterSizes[1]
           w1 == MapAfterLookup(weights, wargs.convLayerName)
           w2 == MapAfterLookup(w1, wargs.scaleLayerName)
           w3 == MapAfterLookup(w2, wargs.shiftLayerName)
       IN  /\ wout' = [wout EXCEPT
                  !.filterWeightResource =
                      CreateWeightResource(SizesOf(wargs.filterSizes), upscaler.m_tensorLayout,
                                           deviceGen),
                  !.biasWeightResource =
                      IF useScaleShift
                      THEN CreateWeightResource(SizesOf(<<1, N, 1, 1>>),
                                                upscaler.m_tensorLayout, deviceGen)
                      ELSE @]
           /\ weights' = IF useScaleShift THEN w3 ELSE w1
           /\ wlocal' = [useScaleShift |-> useScaleShift,
                         biasWeightResourceOut |->
                             IF useScaleShift THEN wargs.biasWeightResourceOut
                                              ELSE "nullptr",
                         filterWeights |-> MapLookup(weights, wargs.convLayerName),
                         scaleWeights |->
                             IF useScaleShift THEN MapLookup(w1, wargs.scaleLayerName)
                                              ELSE <<>>,
                         shiftWeights |->
                             IF useScaleShift THEN MapLookup(w2, wargs.shiftLayerName)
                                              ELSE <<>>,
                         filterWeightsFP16 |-> <<>>,
                         biasWeightsFP16 |-> <<>>,
                         n |-> 0]
    /\ wpc' = "loop"
    /\ UNCHANGED <<wargs, pipelineVars, resourceState, strideVars>>

\* one iteration of for (n = 0; n < N; n++): the filter values of output channel n
\* in the order of the layout, then the bias of channel n.  An iteration that reads
\* past the end of a vector either faults or goes on with what the read found.
CreateWeightTensorsLoop ==
    /\ wpc = "loop"
    /\ wlocal.n < wargs.filterSizes[1]
    /\ \E garbage \in GarbageValues, faults \in BOOLEAN :
          LET x == [useScaleShift |-> wlocal.useScaleShift,
                    filterWeights |-> wlocal.filterWeights,
                    scaleWeights |-> wlocal.scaleWeights,
                    shiftWeights |-> wlocal.shiftWeights,
                    C |-> wargs.filterSizes[2], H |-> wargs.filterSizes[3],
                    W |-> wargs.filterSizes[4], garbage |-> garbage]
          IN  IF ReadsPastEnd(x, wlocal.n) /\ faults
              THEN /\ wpc' = "fault"
                   /\ UNCHANGED wlocal
              ELSE /\ (ReadsPastEnd(x, wlocal.n) \/ (garbage = 0 /\ ~faults))
                   /\ wpc' = "loop"
                   /\ wlocal' = [wlocal EXCEPT
                          !.filterWeightsFP16 =
                              EmitFilterRow(upscaler.m_tensorLayout, x, wlocal.n, @),
                          !.biasWeightsFP16 =
                              IF wlocal.useScaleShift
                              THEN Append(@, Compress(VectorAt(wlocal.shiftWeights,
                                                               wlocal.n, garbage)))
                              ELSE @,
                          !.n = @ + 1]
    /\ UNCHANGED <<weights, wargs, wout, pipelineVars, resourceState, strideVars>>

\* Upload to the GPU
CreateWeightTensorsUpload ==
    /\ wpc = "loop"
    /\ wlocal.n = wargs.filterSizes[1]
    /\ wout' = [wout EXCEPT !.uploads =
          <<[resource |-> "filterWeightResourceOut", data |-> wlocal.filterWeightsFP16]>>
          \o (IF wlocal.useScaleShift
              THEN <<[resource |-> "biasWeightResourceOut",
                      data |-> wlocal.biasWeightsFP16]>>
              ELSE <<>>)]
    /\ wpc' = "done"
    /\ UNCHANGED <<weights, wargs, wlocal, pipelineVars, resourceState, strideVars>>

WeightsNext ==
    \/ CreateWeightTensorsBegin
    \/ CreateWeightTensorsLoop
    \/ CreateWeightTensorsUpload

SpecWeights == WeightsInit /\ [][WeightsNext]_vars

-----------------------------------------------------------------------------
(* GetStrides as a state machine: the weight resource of a shape is sized, then *)
(* its tensor is bound, for a shape and for the same shape with one dimension  *)
(* increased                                                                   *)

StrideDims == {Word(0, n) : n \in 1 .. MaxDim} \cup {Word(1, 0), Word(Half - 1, Half - 1)}
StrideShapes == StrideDims \X StrideDims \X StrideDims \X StrideDims

LessWord(x, y) == x[1] < y[1] \/ (x[1] = y[1] /\ x[2] < y[2])

StridesInit ==
    /\ lifecycle = "built"
    /\ \E layout \in {"Default", "NHWC"} :
          upscaler = [Upscaler(NullHandle) EXCEPT !.m_tensorLayout = layout]
    /\ deviceGen = 1
    /\ createCall = NoCall
    /\ pc = "idle"
    /\ renderArgs = NoArgs
    /\ calls = <<>>
    /\ cmdList = <<>>
    /\ renderOut = NoOut
    /\ gpuQueue = <<>>
    /\ inputFence = 0
    /\ outputFence = 0
    /\ fenceValue = 0
    /\ counters = [renders |-> 0, submits |-> 0, losses |-> 0, restores |-> 0]
    /\ initialState = Shape(Upscaler(NullHandle))
    /\ adapterNhwc = (upscaler.m_tensorLayout = "NHWC")
    /\ deleteInfo = [destructorRan |-> FALSE, waitedForGpu |-> FALSE, pending |-> 0]
    /\ wpc = "idle"
    /\ weights = EmptyMap
    /\ wargs = NoWeightArgs
    /\ wlocal = NoLocals
    /\ wout = NoWeightOut
    /\ resourceState = NoResourceStates
    /\ spc = "size"
    /\ \E sizes \in StrideShapes, axis \in 1 .. 4, d \in StrideDims :
          /\ LessWord(sizes[axis], d)
          /\ sargs = [shapes |-> <<sizes, [sizes EXCEPT ![axis] = d]>>, axis |-> axis]
    /\ slog = <<>>

\* CreateWeightResource for the next shape: GetStrides writes the local strides[4],
\* from which the buffer is sized
SizeWeightResource ==
    /\ spc = "size"
    /\ LET sizes == sargs.shapes[Len(slog) + 1]
       IN  slog' = Append(slog,
                [sizes    |-> sizes,
                 strides  |-> GetStrides(sizes, upscaler.m_tensorLayout),
                 resource |-> CreateWeightResource(sizes, upscaler.m_tensorLayout,
                                                   deviceGen),
                 bound    |-> <<>>])
    /\ spc' = IF Len(slog) + 1 = Len(sargs.shapes) THEN "bind" ELSE "size"
    /\ UNCHANGED <<sargs, pipelineVars, weightVars, resourceState>>

\* the tensor of the next sized resource is described to the ML graph: GetStrides
\* is called again with the same sizes and the layout of the object
BindWeightTensor ==
    /\ spc = "bind"
    /\ \E i \in 1 .. Len(slog) :
          /\ slog[i].bound = <<>>
          /\ \A j \in 1 .. (i - 1) : slog[j].bound # <<>>
          /\ slog' = [slog EXCEPT
                        ![i].bound = GetStrides(slog[i].sizes, upscaler.m_tensorLayout)]
          /\ spc' = IF i = Len(slog) THEN "done" ELSE "bind"
    /\ UNCHANGED <<sargs, pipelineVars, weightVars, resourceState>>

StridesNext ==
    \/ SizeWeightResource
    \/ BindWeightTensor

SpecStrides == StridesInit /\ [][StridesNext]_vars

-----------------------------------------------------------------------------
(* Properties of the pipeline *)

\* the dispatches, barriers, clear and draw of a command list, in recorded order
KeyOps == {"Dispatch", "ResourceBarrier", "RecordDispatch", "ClearRenderTargetView",
           "DrawIndexedInstanced"}
IsKeyCommand(c) == c.op \in KeyOps
KeyCommands(cmds) ==
    LET key == SelectSeq(cmds, IsKeyCommand)
    IN  [i \in 1 .. Len(key) |->
            <<key[i].op, IF key[i].op = "ResourceBarrier" THEN key[i].args ELSE <<>>>>]

FrameOrder ==
    <<<<"Dispatch", <<>>>>,
      <<"ResourceBarrier", <<UAVBarrier>>>>,
      <<"RecordDispatch", <<>>>>,
      <<"ResourceBarrier",
        <<Transition("m_finalResultTexture", "PIXEL_SHADER_RESOURCE", "RENDER_TARGET"),
          Transition("m_modelOutput", "UNORDERED_ACCESS", "PIXEL_SHADER_RESOURCE"),
          UAVBarrier>>>>,
      <<"ClearRenderTargetView", <<>>>>,
      <<"DrawIndexedInstanced", <<>>>>>>

IsPrefix(a, b) == Len(a) <= Len(b) /\ a = SubSeq(b, 1, Len(a))

\* every command list in the system: the submitted ones, and the one being recorded
Recorded == {gpuQueue[i].cmds : i \in 1 .. Len(gpuQueue)}

\* C1: in every Render call the commands are recorded in the order image-to-tensor
\* Dispatch, UAV barrier, ML RecordDispatch, the barrier batch (output texture to
\* render target, model output to pixel-shader resource, UAV), clear, quad draw;
\* the list is submitted only when all of them are recorded, and while it is being
\* recorded it is a prefix of that order.
C1_RenderOrder ==
    /\ \A i \in 1 .. Len(gpuQueue) : KeyCommands(gpuQueue[i].cmds) = FrameOrder
    /\ pc # "idle" => IsPrefix(KeyCommands(cmdList), FrameOrder)
    /\ pc = "submit" => KeyCommands(cmdList) = FrameOrder

C1_Witness ==
    /\ pc = "idle"
    /\ Len(gpuQueue) = 2
    /\ KeyCommands(gpuQueue[2].cmds) = FrameOrder

\* every member that owns a device-dependent object is empty
AllReleased(u) ==
    /\ \A f \in ObjectMembers : u[f] = Null
    /\ \A i \in Layers : u.m_modelConvFilterWeights[i] = Null
    /\ \A i \in Layers : u.m_modelConvBiasWeights[i] = Null

\* C2: after OnDeviceLost returns, every device-dependent object the pipeline owns
\* is released: no owned object survives the loss.
C2_AllReleasedAfterLoss == lifecycle = "lost" => AllReleased(upscaler)

\* every object a built pipeline owns was created on the current device
AllCurrent(u) ==
    /\ \A f \in ObjectMembers : u[f].gen = deviceGen
    /\ \A i \in Layers : u.m_modelConvFilterWeights[i].gen = deviceGen
    /\ \A i \in Layers : u.m_modelConvBiasWeights[i].gen \in {0, deviceGen}
    /\ u.m_vertexBufferView = deviceGen
    /\ u.m_indexBufferView = deviceGen

\* every object a command list refers to was created on the current device
RefsCurrent(cmds) ==
    \A i \in 1 .. Len(cmds) :
        \A j \in 1 .. Len(cmds[i].refs) : cmds[i].refs[j][2] = deviceGen

\* C3: after OnDeviceLost then OnDeviceRestored, twice in succession, the pipeline
\* has what it had right after Initialize (the same objects built, the same sizes,
\* nothing more and nothing less), every object is one the last rebuild created,
\* and a Render made afterward refers only to objects of the last rebuild.
C3_RebuildIdempotent ==
    (lifecycle = "built" /\ counters.restores >= 2) =>
        /\ Shape(upscaler) = initialState
        /\ AllCurrent(upscaler)
        /\ \A i \in 1 .. Len(gpuQueue) : RefsCurrent(gpuQueue[i].cmds)
        /\ pc # "idle" => RefsCurrent(cmdList)

C3_Witness ==
    /\ lifecycle = "built"
    /\ counters.restores = 2
    /\ pc = "idle"
    /\ Len(gpuQueue) = 1
    /\ Len(gpuQueue[1].cmds) > 0

\* C4: DeleteUpscaler with frames in flight first waits until all outstanding GPU
\* work has completed (the destructor's WaitForGpu runs) and only then lets go of
\* the pipeline.
C4_DeleteDrainsGpu ==
    (lifecycle = "deleted" /\ counters.submits > 0) =>
        (deleteInfo.waitedForGpu /\ deleteInfo.pending = 0)

\* C5: every Render call submits its command list exactly once, after the three
\* passes are recorded, with the caller's input fence and value as the wait
\* condition: a frame's GPU work has begun only if the input fence has reached the
\* value the caller gave, and the output fence has reached the value returned for
\* a frame only if that frame's GPU work has completed.
C5_SubmitOnceWithFences ==
    /\ counters.submits = counters.renders - (IF pc = "idle" THEN 0 ELSE 1)
    /\ \A i \in 1 .. Len(gpuQueue) :
          LET f == gpuQueue[i]
              a == calls[f.frame]
          IN  /\ f.waitFence = a.inputWaitFence
              /\ f.status \in {"running", "done"} => inputFence >= a.inputWaitFenceValue
              /\ outputFence >= f.signalValue => f.status = "done"
              /\ KeyCommands(f.cmds) = FrameOrder
              /\ \A j \in 1 .. Len(gpuQueue) : gpuQueue[j].frame = f.frame => j = i
              /\ (f.frame = counters.renders /\ pc = "idle") =>
                    renderOut.outputWaitFenceValue = f.signalValue

C5_Witness ==
    \E i \in 1 .. Len(gpuQueue) :
        /\ gpuQueue[i].status = "done"
        /\ calls[gpuQueue[i].frame].inputWaitFenceValue = 2
        /\ outputFence = gpuQueue[i].signalValue

\* C6: when CreateUpscaler returns, the two handles it reports are the shared
\* handles created during the build on the input texture and on the output
\* texture the pipeline owns.
C6_ReportedHandles ==
    (lifecycle = "built" /\ counters.losses = 0) =>
        /\ upscaler.m_videoTexture # Null
        /\ upscaler.m_finalResultTexture # Null
        /\ createCall.pSrcSharedResource =
              SharedHandle("m_videoTexture", upscaler.m_videoTexture)
        /\ createCall.pDstSharedResource =
              SharedHandle("m_finalResultTexture", upscaler.m_finalResultTexture)

C6_Witness ==
    /\ lifecycle = "built"
    /\ counters.losses = 0
    /\ createCall.pSrcSharedResource.of = "m_videoTexture"
    /\ createCall.pDstSharedResource.of = "m_finalResultTexture"

\* the word r is exactly twice the word x (the doubling did not overflow)
IsTwice(r, x) ==
    \E c \in {0, 1} : 2 * x[2] = r[2] + c * Half /\ 2 * x[1] + c = r[1]

\* the LONG v is exactly twice the word x
LongIsTwice(v, x) == v >= 0 /\ IsTwice(<<v \div Half, v % Half>>, x)

\* the FLOAT f, of value (-1)^neg * m * 2^e, is exactly twice the word x
FloatIsTwice(f, x) ==
    /\ ~f.neg
    /\ f.e <= 16
    /\ f.m \div Pow2(16 - f.e) < Half
    /\ IsTwice(<<f.m \div Pow2(16 - f.e), (f.m % Pow2(16 - f.e)) * Pow2(f.e)>>, x)

\* the image-to-tensor pass of a command list uses the source size w x h as it is
UnscaledIn(cmds, w, h) ==
    \A i \in 1 .. Len(cmds) :
        cmds[i].op = "SetComputeRoot32BitConstants" =>
            (cmds[i].args.Width = w /\ cmds[i].args.Height = h)

\* viewport, scissor and tensor-to-image constants hold exactly twice the width w
TwiceWidthIn(cmds, w) ==
    \A i \in 1 .. Len(cmds) :
        /\ cmds[i].op = "RSSetViewports" => FloatIsTwice(cmds[i].args.Width, w)
        /\ cmds[i].op = "RSSetScissorRects" => LongIsTwice(cmds[i].args.right, w)
        /\ cmds[i].op = "SetGraphicsRoot32BitConstants" => IsTwice(cmds[i].args.Width, w)

\* viewport, scissor and tensor-to-image constants hold exactly twice the height h
TwiceHeightIn(cmds, h) ==
    \A i \in 1 .. Len(cmds) :
        /\ cmds[i].op = "RSSetViewports" => FloatIsTwice(cmds[i].args.Height, h)
        /\ cmds[i].op = "RSSetScissorRects" => LongIsTwice(cmds[i].args.bottom, h)
        /\ cmds[i].op = "SetGraphicsRoot32BitConstants" => IsTwice(cmds[i].args.Height, h)

\* x <= 2^23: twice x has at most 24 significant bits and fits a LONG
AtMost2To23(x) == x[1] < 128 \/ x = <<128, 0>>

-----------------------------------------------------------------------------
(* Properties of CreateWeightTensors *)

\* a layer name the call looks up is no key of the loaded WeightSet
NamesLookedUp ==
    {wargs.convLayerName} \cup
    (IF wargs.scaleLayerName # "nullptr"
     THEN {wargs.scaleLayerName, wargs.shiftLayerName} ELSE {})
LayerMissing == wpc # "idle" /\ AbsentName \in NamesLookedUp

\* C8: CreateWeightTensors called with a convolution, scale or shift layer name that
\* is not a key of the WeightSet ends in a fatal error: it emits no filter or bias
\* value for the layer, uploads nothing, and never completes.
C8_MissingLayerIsFatal ==
    LayerMissing =>
        /\ wlocal.filterWeightsFP16 = <<>>
        /\ wlocal.biasWeightsFP16 = <<>>
        /\ wout.uploads = <<>>
        /\ wpc # "done"

\* positions of element (n, c, h, w) in the two layouts, 0-based
DefaultPosition(n, c, h, w, sizes) == ((n * sizes[2] + c) * sizes[3] + h) * sizes[4] + w
NhwcPosition(n, c, h, w, sizes) == ((n * sizes[3] + h) * sizes[4] + w) * sizes[2] + c
Position(layout, n, c, h, w, sizes) ==
    IF layout = "NHWC" THEN NhwcPosition(n, c, h, w, sizes)
                       ELSE DefaultPosition(n, c, h, w, sizes)

Elements(sizes) ==
    (0 .. sizes[1] - 1) \X (0 .. sizes[2] - 1) \X (0 .. sizes[3] - 1) \X (0 .. sizes[4] - 1)

Completed == wpc = "done" /\ ~LayerMissing

\* C9: for every filter shape and both layouts, with scale and shift names the
\* call emits, for every output channel n, each filter value of channel n times
\* scale[n] (as a half) and one bias value shift[n] (as a half), N of them in
\* channel order; without the names it emits the filter values as they are, no
\* bias value, no bias upload, and the caller's bias resource stays empty.
C9_ScaleShiftFusion ==
    Completed =>
        LET sizes   == wargs.filterSizes
            filter  == weights[ConvName]
            emitted == wout.uploads[1].data
        IN  /\ wout.uploads[1].resource = "filterWeightResourceOut"
            /\ Len(emitted) = Len(filter)
            /\ \A e \in Elements(sizes) :
                  emitted[Position(upscaler.m_tensorLayout, e[1], e[2], e[3], e[4], sizes) + 1]
                    = Compress(
                        IF wargs.scaleLayerName # "nullptr"
                        THEN filter[DefaultPosition(e[1], e[2], e[3], e[4], sizes) + 1]
                                * weights[ScaleName][e[1] + 1]
                        ELSE filter[DefaultPosition(e[1], e[2], e[3], e[4], sizes) + 1])
            /\ IF wargs.scaleLayerName # "nullptr"
               THEN /\ Len(wout.uploads) = 2
                    /\ wout.uploads[2].resource = "biasWeightResourceOut"
                    /\ wout.uploads[2].data =
                          [n \in 1 .. sizes[1] |-> Compress(weights[ShiftName][n])]
                    /\ wout.biasWeightResource # Null
               ELSE /\ Len(wout.uploads) = 1
                    /\ wlocal.biasWeightsFP16 = <<>>
                    /\ wout.biasWeightResource = Null

C9_Witness ==
    /\ Completed
    /\ wargs.scaleLayerName = ScaleName
    /\ wargs.filterSizes = <<2, 2, 1, 2>>
    /\ upscaler.m_tensorLayout = "NHWC"
    /\ weights[ScaleName] = <<2, 3>>
    /\ Len(wout.uploads[2].data) = 2

\* the filter sequence the call emits for the same arguments under a given layout
RECURSIVE EmitAll(_, _, _, _)
EmitAll(layout, x, n, acc) ==
    IF n < wargs.filterSizes[1]
    THEN EmitAll(layout, x, n + 1, EmitFilterRow(layout, x, n, acc))
    ELSE acc
EmittedUnder(layout) ==
    EmitAll(layout,
            [useScaleShift |-> wlocal.useScaleShift,
             filterWeights |-> wlocal.filterWeights,
             scaleWeights |-> wlocal.scaleWeights,
             shiftWeights |-> wlocal.shiftWeights,
             C |-> wargs.filterSizes[2], H |-> wargs.filterSizes[3],
             W |-> wargs.filterSizes[4], garbage |-> 0],
            0, <<>>)

SeqToBag(q) ==
    [v \in {q[i] : i \in 1 .. Len(q)} |-> Cardinality({i \in 1 .. Len(q) : q[i] = v})]

\* C10: for every filter shape, the filter sequence emitted under the NHWC layout
\* is a permutation of the one emitted under the Default layout: the value at NHWC
\* position ((n*H+h)*W+w)*C+c is the value at Default position ((n*C+c)*H+h)*W+w,
\* both have N*C*H*W values, and no value is lost or duplicated.
C10_NhwcIsPermutationOfDefault ==
    Completed =>
        LET sizes   == wargs.filterSizes
            emitted == wout.uploads[1].data
            nhwc    == IF upscaler.m_tensorLayout = "NHWC" THEN emitted
                                                            ELSE EmittedUnder("NHWC")
            default == IF upscaler.m_tensorLayout = "NHWC" THEN EmittedUnder("Default")
                                                            ELSE emitted
        IN  /\ Len(nhwc) = sizes[1] * sizes[2] * sizes[3] * sizes[4]
            /\ Len(default) = sizes[1] * sizes[2] * sizes[3] * sizes[4]
            /\ \A e \in Elements(sizes) :
                  nhwc[NhwcPosition(e[1], e[2], e[3], e[4], sizes) + 1]
                    = default[DefaultPosition(e[1], e[2], e[3], e[4], sizes) + 1]
            /\ SeqToBag(nhwc) = SeqToBag(default)

C10_Witness ==
    /\ Completed
    /\ upscaler.m_tensorLayout = "NHWC"
    /\ wargs.filterSizes = <<2, 2, 2, 2>>
    /\ wargs.scaleLayerName = "nullptr"
    /\ wout.uploads[1].data[2] = Compress(501)
    /\ wout.uploads[1].data # EmittedUnder("Default")

-----------------------------------------------------------------------------
(* Properties of GetStrides *)

\* the exact product of the words in ws, as 12 digits
RECURSIVE ExactProduct(_, _)
ExactProduct(ws, i) ==
    IF i > Len(ws) THEN AddDigits(<<1>>, <<0>>, 12)
    ELSE MulDigits(DigitsOfWord(ws[i]), ExactProduct(ws, i + 1), 12)

\* the word x holds exactly the product of the words in ws
HoldsProduct(x, ws) == AddDigits(DigitsOfWord(x), <<0>>, 12) = ExactProduct(ws, 1)

\* the strides the specification gives for sizes = (N, C, H, W)
ExactStrides(strides, sizes, layout) ==
    LET C == sizes[2]
        H == sizes[3]
        W == sizes[4]
    IN  IF layout = "NHWC"
        THEN /\ HoldsProduct(strides[1], <<C, H, W>>)
             /\ HoldsProduct(strides[2], <<>>)
             /\ HoldsProduct(strides[3], <<C, W>>)
             /\ HoldsProduct(strides[4], <<C>>)
        ELSE /\ HoldsProduct(strides[1], <<C, H, W>>)
             /\ HoldsProduct(strides[2], <<H, W>>)
             /\ HoldsProduct(strides[3], <<W>>)
             /\ HoldsProduct(strides[4], <<>>)

\* C * H * W is below 2^32
FitsWord(d) == SubSeq(d, 5, 8) = <<0, 0, 0, 0>>
ProductFits(sizes) ==
    LET ch == MulWords(sizes[2], sizes[3])
    IN  FitsWord(ch) /\ FitsWord(MulWords(WordOfDigits(ch), sizes[4]))

\* the strides used for binding are those used for sizing
BoundAsSized == \A i \in 1 .. Len(slog) : slog[i].bound # <<>> => slog[i].bound = slog[i].strides

\* C11 as stated: for every shape (N, C, H, W), GetStrides writes exactly
\* (C*H*W, H*W, W, 1) for the Default layout and (C*H*W, 1, C*W, C) for the NHWC
\* layout, and the strides written for binding equal those written for sizing.
C11_ExactStridesEveryShape ==
    /\ BoundAsSized
    /\ \A i \in 1 .. Len(slog) :
          ExactStrides(slog[i].strides, slog[i].sizes, upscaler.m_tensorLayout)

\* C11, amended: the strides written for binding equal those written for sizing
\* for every shape, and they are exactly (C*H*W, H*W, W, 1) resp. (C*H*W, 1, C*W, C)
\* for every shape whose product C*H*W is below 2^32.
C11_ExactStridesWhenProductFits ==
    /\ BoundAsSized
    /\ \A i \in 1 .. Len(slog) :
          ProductFits(slog[i].sizes) =>
              ExactStrides(slog[i].strides, slog[i].sizes, upscaler.m_tensorLayout)

\* a resource of shape (2, 65536, 2, 2) sized and bound under the NHWC layout
C11_Witness ==
    /\ upscaler.m_tensorLayout = "NHWC"
    /\ \E i \in 1 .. Len(slog) :
          /\ slog[i].sizes = <<Word(0, 2), Word(1, 0), Word(0, 2), Word(0, 2)>>
          /\ slog[i].bound = <<Word(4, 0), Word(0, 1), Word(2, 0), Word(1, 0)>>
          /\ slog[i].strides = slog[i].bound

RECURSIVE LeqFrom(_, _, _)
LeqFrom(a, b, k) ==
    IF k = 0 THEN TRUE
    ELSE IF DigitAt(a, k) < DigitAt(b, k) THEN TRUE
    ELSE IF DigitAt(a, k) > DigitAt(b, k) THEN FALSE
    ELSE LeqFrom(a, b, k - 1)

\* a <= b for numbers given by their digits
LeqDigits(a, b) == LeqFrom(a, b, 9)

\* the element count of the i-th sized shape under a layout: from the strides that
\* were written for it under the layout of the object, from GetStrides otherwise
CountUnder(i, layout) ==
    ElementCount(slog[i].sizes,
                 IF layout = upscaler.m_tensorLayout THEN slog[i].strides
                 ELSE GetStrides(slog[i].sizes, layout))

SameCount(i) == CountUnder(i, "Default") = CountUnder(i, "NHWC")

\* the second shape is the first with one dimension increased
NotDecreasing ==
    Len(slog) = 2 =>
        \A layout \in {"Default", "NHWC"} :
            LeqDigits(CountUnder(1, layout), CountUnder(2, layout))

\* C12 as stated: for every shape with all dimensions > 0, the element count
\* 1 + sum of (size-1)*stride is the same for the Default and the NHWC layout, and
\* for each layout it does not decrease when one dimension is increased.
C12_CountEveryShape ==
    /\ \A i \in 1 .. Len(slog) : SameCount(i)
    /\ NotDecreasing

\* C12, amended: the same, for the shapes whose product C*H*W is below 2^32 (for
\* the increase: both the shape and the increased shape).
C12_CountWhenProductFits ==
    /\ \A i \in 1 .. Len(slog) : ProductFits(slog[i].sizes) => SameCount(i)
    /\ (\A i \in 1 .. Len(slog) : ProductFits(slog[i].sizes)) => NotDecreasing

\* (2, 2, 2, 2) with 16 elements, grown to (2, 65536, 2, 2) with 2^19 elements
C12_Witness ==
    /\ Len(slog) = 2
    /\ slog[1].sizes = <<Word(0, 2), Word(0, 2), Word(0, 2), Word(0, 2)>>
    /\ slog[2].sizes = <<Word(0, 2), Word(1, 0), Word(0, 2), Word(0, 2)>>
    /\ CountUnder(1, "NHWC") = <<16, 0, 0, 0, 0, 0, 0, 0, 0>>
    /\ CountUnder(2, "Default") = <<0, 0, 8, 0, 0, 0, 0, 0, 0>>
    /\ CountUnder(2, "NHWC") = <<0, 0, 8, 0, 0, 0, 0, 0, 0>>

-----------------------------------------------------------------------------
(* Properties of the resource states *)

\* the transition barriers the tensor-to-image pass of Render records
DeclaredTransitions(u) ==
    LET cmds == TensorToImagePass(u)
    IN  {cmds[i].args[j] : <<i, j>> \in
            {p \in (1 .. Len(cmds)) \X (1 .. 3) :
                /\ cmds[p[1]].op = "ResourceBarrier"
                /\ p[2] <= Len(cmds[p[1]].args)
                /\ cmds[p[1]].args[p[2]][1] = "Transition"}}

\* the states the resources are in when the first frame starts
FrameStartStates ==
    [m_finalResultTexture |-> "PIXEL_SHADER_RESOURCE", m_modelOutput |-> "UNORDERED_ACCESS"]

\* every transition about to be recorded names the state its resource is in
BeforeStatesMatch ==
    pc = "tensorToImage" =>
        \A b \in DeclaredTransitions(upscaler) : resourceState[b[2]] = b[3]

\* the ML dispatch about to be recorded finds the model output writable
DispatchWritesUnorderedAccess ==
    pc = "directML" => resourceState.m_modelOutput = "UNORDERED_ACCESS"

\* C13: over consecutive Render calls every transition barrier declares the state
\* its resource is in; every frame starts with the output texture in
\* pixel-shader-resource state and the model output in unordered-access state, the
\* resources are back in those states when the frame's list is submitted, and the
\* ML dispatch never writes the model output while it is in a read-only state.
C13_BarriersMatchResourceStates ==
    /\ pc = "imageToTensor" => resourceState = FrameStartStates
    /\ DispatchWritesUnorderedAccess
    /\ BeforeStatesMatch
    /\ pc = "submit" => resourceState = FrameStartStates

====
